---- MODULE Spec2Model ----
(***************************************************************************)
(* Model of src/main.c: the Carmichael oracle (load_carmichael,           *)
(* is_carmichael), the coprime base sampler (generate_random_coprime),    *)
(* the Fermat test (fermat_test_gmp) and the chunked scan of main.        *)
(*                                                                         *)
(* main's locals bit_length/MAX_VAL, k and CHUNK are fixed numbers in the *)
(* source (2^32-1, 16, 1000000); here they are drawn from small ranges in *)
(* Init so that the scan can be explored exhaustively.  All modelled      *)
(* values stay far below 2^64, as they do in the program (MAX_VAL + CHUNK *)
(* < 2^64), so uint64_t arithmetic never wraps.  The elapsed-time column  *)
(* is clock data that no decision reads and is left out of the row.       *)
(* The runs modelled are those in which both fopen calls and the          *)
(* allocations succeed; a failed fopen ends the process before any scan.  *)
(***************************************************************************)
EXTENDS Integers, Naturals, Sequences, FiniteSets, TLC

\* ---------------------------------------------------------------- bounds
MaxVal    == 15   \* largest MAX_VAL of a full scan
MaxChunk  == 3    \* largest CHUNK of a full scan
MaxK      == 5    \* largest repetition count k
MaxLen    == 3    \* longest Carmichael source file (oracle specification)
MaxSrcVal == 5    \* largest value in a source file (oracle specification)
MaxValLive == 6   \* largest MAX_VAL of the fair scan
MaxKLive   == 2   \* largest k of the fair scan
MaxKFermat == 2   \* largest k of the single-candidate runs

VARIABLES
  source,            \* contents of data/pureCarmichael.txt, a sequence
  carmichael_list,   \* main.c:11 (carmichael_count is its length)
  MAX_VAL, CHUNK, k, \* main.c:88-90
  start, end, x,     \* main.c:108-112
  pc,                \* control position
  n,                 \* mpz n of main (main.c:113)
  i, a, t,           \* locals of fermat_test_gmp (main.c:68-72)
  witness,           \* mpz witness of main
  is_prime,          \* main.c:116
  found,             \* result of the last is_carmichael call
  bit_len,           \* main.c:124
  is_really_prime,   \* main.c:125
  row,               \* last data row written to results.csv
  out,               \* the n column of the data rows written so far
  sampled,           \* history: generate_random_coprime calls in this test
  passes             \* history: trials of this test with t = 1

vars == <<source, carmichael_list, MAX_VAL, CHUNK, k, start, end, x, pc, n,
          i, a, t, witness, is_prime, found, bit_len, is_really_prime, row,
          out, sampled, passes>>

\* ------------------------------------------------------- pure functions
RECURSIVE GCD(_, _)
GCD(u, v) == IF v = 0 THEN u ELSE GCD(v, u % v)

\* mpz_powm: binary modular exponentiation; b^0 mod 1 is 0
RECURSIVE ModPow(_, _, _)
ModPow(b, e, m) ==
  IF e = 0 THEN 1 % m
  ELSE LET h  == ModPow(b, e \div 2, m)
           sq == (h * h) % m
       IN  IF e % 2 = 1 THEN (sq * (b % m)) % m ELSE sq

\* 64 - __builtin_clzll(x), and 1 for x = 0
RECURSIVE BitLen(_)
BitLen(v) == IF v < 2 THEN 1 ELSE 1 + BitLen(v \div 2)

LoadKeepsOffByOne(v, max_val) == v < max_val
\* main.c:25  the value is kept unless x > max_val
LoadKeeps(v, max_val) == ~(v > max_val)

\* main.c:24-31  the read loop, from position p of the file
RECURSIVE LoadFrom(_, _, _, _)
LoadFrom(src, p, max_val, acc) ==
  IF p > Len(src) THEN acc
  ELSE IF ~LoadKeeps(src[p], max_val) THEN acc
  ELSE LoadFrom(src, p + 1, max_val, Append(acc, src[p]))

load_carmichael(src, max_val) == LoadFrom(src, 1, max_val, <<>>)

\* main.c:38-42  the binary search loop (list is 1-based here)
RECURSIVE BSearch(_, _, _, _)
BSearch(list, v, lo, hi) ==
  IF lo < hi
  THEN LET mid == (lo + hi) \div 2
       IN  IF list[mid + 1] < v THEN BSearch(list, v, mid + 1, hi)
           ELSE BSearch(list, v, lo, mid)
  ELSE lo

is_carmichael(list, v) ==
  LET lo == BSearch(list, v, 0, Len(list))
  IN  lo < Len(list) /\ list[lo + 1] = v

UrandommShort(m) == 0 .. (m - 2)
\* main.c:57  mpz_urandomm draws from [0, n)
UrandommRange(m) == 0 .. (m - 1)

\* main.c:58-59
AdjustBase(b, m) ==
  IF b < 2 THEN b + 2
  ELSE IF b >= m THEN b % m
  ELSE b

AcceptAny(g) == TRUE
\* main.c:61  the loop ends when the gcd is 1
CoprimeAccepted(g) == ~(g # 1)

FermatFailsInverted(r) == r = 1
\* main.c:75
FermatFails(r) == r # 1

ChunkEndNoTruncate(s, c, m) == s + c - 1
\* main.c:109-110
ChunkEndOf(s, c, m) == IF s + c - 1 > m THEN m ELSE s + c - 1

ReallyPrimeNoOracle(p, list, v) == IF p # 0 THEN 1 ELSE 0
\* main.c:125
ReallyPrime(p, list, v) ==
  IF p # 0 THEN (IF is_carmichael(list, v) THEN 0 ELSE 1) ELSE 0

\* main.c:129-143  the fields of one data row (witness column empty for 1)
RowOf(v, bl, p, w, rp) ==
  [n |-> v, bit_len |-> bl, is_probably_prime |-> p,
   witness |-> IF p # 0 THEN <<>> ELSE <<w>>, is_really_prime |-> rp]

\* ---------------------------------------------------------------- inputs
\* ascending files of at most len values from 1..top (the file is pre-sorted)
AscSeqs(top, len) ==
  {q \in UNION {[1 .. l -> 1 .. top] : l \in 0 .. len} :
      \A j \in 1 .. (Len(q) - 1) : q[j] <= q[j + 1]}

\* files offered to a full scan: nothing, a value inside every range, values
\* around and above the upper bound
ScanSources == {<<>>, <<9>>, <<9, 15, MaxVal + 2>>, <<MaxVal + 2>>}

\* ------------------------------------------------------------ the program
\* main.c:93  load_carmichael("data/pureCarmichael.txt", MAX_VAL), then the
\* for-init of main.c:108
Load ==
  /\ pc = "load"
  /\ carmichael_list' = load_carmichael(source, MAX_VAL)
  /\ start' = 1
  /\ pc' = "outer"
  /\ UNCHANGED <<source, MAX_VAL, CHUNK, k, end, x, n, i, a, t, witness,
                 is_prime, found, bit_len, is_really_prime, row, out,
                 sampled, passes>>

\* main.c:108-112  outer loop condition true: fix the chunk, start the inner loop
ChunkBegin ==
  /\ pc = "outer"
  /\ start <= MAX_VAL
  /\ end' = ChunkEndOf(start, CHUNK, MAX_VAL)
  /\ x' = start
  /\ pc' = "inner"
  /\ UNCHANGED <<source, carmichael_list, MAX_VAL, CHUNK, k, start, n, i, a,
                 t, witness, is_prime, found, bit_len, is_really_prime, row,
                 out, sampled, passes>>

\* main.c:108, 149-154  outer loop condition false
ScanDone ==
  /\ pc = "outer"
  /\ ~(start <= MAX_VAL)
  /\ pc' = "done"
  /\ UNCHANGED <<source, carmichael_list, MAX_VAL, CHUNK, k, start, end, x,
                 n, i, a, t, witness, is_prime, found, bit_len,
                 is_really_prime, row, out, sampled, passes>>

\* main.c:112, 108  inner loop condition false: start += CHUNK
ChunkEnd ==
  /\ pc = "inner"
  /\ ~(x <= end)
  /\ start' = start + CHUNK
  /\ pc' = "outer"
  /\ UNCHANGED <<source, carmichael_list, MAX_VAL, CHUNK, k, end, x, n, i, a,
                 t, witness, is_prime, found, bit_len, is_really_prime, row,
                 out, sampled, passes>>

\* main.c:112-116, 68-72  next candidate: n = x, enter fermat_test_gmp
CandBegin ==
  /\ pc = "inner"
  /\ x <= end
  /\ n' = x
  /\ a' = 0 /\ t' = 0 /\ i' = 0
  /\ sampled' = 0 /\ passes' = 0
  /\ pc' = "loop"
  /\ UNCHANGED <<source, carmichael_list, MAX_VAL, CHUNK, k, start, end, x,
                 witness, is_prime, found, bit_len, is_really_prime, row, out>>

\* main.c:72-73  i < k: call generate_random_coprime
LoopEnter ==
  /\ pc = "loop"
  /\ i < k
  /\ sampled' = sampled + 1
  /\ pc' = "sample"
  /\ UNCHANGED <<source, carmichael_list, MAX_VAL, CHUNK, k, start, end, x,
                 n, i, a, t, witness, is_prime, found, bit_len,
                 is_really_prime, row, out, passes>>

\* main.c:81-83  all k trials passed: witness = 0, return 1
ReturnPrime ==
  /\ pc = "loop"
  /\ ~(i < k)
  /\ witness' = 0
  /\ is_prime' = 1
  /\ pc' = "emit"
  /\ UNCHANGED <<source, carmichael_list, MAX_VAL, CHUNK, k, start, end, x,
                 n, i, a, t, found, bit_len, is_really_prime, row, out,
                 sampled, passes>>

\* main.c:56-61  one iteration of the rejection loop with draw r
Sample(r) ==
  /\ pc = "sample"
  /\ n >= 1
  /\ r \in UrandommRange(n)
  /\ a' = AdjustBase(r, n)
  /\ pc' = IF CoprimeAccepted(GCD(a', n)) THEN "powm" ELSE "sample"
  /\ UNCHANGED <<source, carmichael_list, MAX_VAL, CHUNK, k, start, end, x,
                 n, i, t, witness, is_prime, found, bit_len, is_really_prime,
                 row, out, sampled, passes>>

PowmNoShortCircuit ==
  /\ pc = "powm"
  /\ t' = ModPow(a, n - 1, n)
  /\ IF FermatFails(t')
     THEN /\ witness' = a
          /\ i' = i + 1
          /\ pc' = "loop"
          /\ UNCHANGED <<is_prime, passes>>
     ELSE /\ i' = i + 1
          /\ passes' = passes + 1
          /\ pc' = "loop"
          /\ UNCHANGED <<witness, is_prime>>
  /\ UNCHANGED <<source, carmichael_list, MAX_VAL, CHUNK, k, start, end, x,
                 n, a, found, bit_len, is_really_prime, row, out, sampled>>

\* main.c:74-80  t = a^(n-1) mod n; not 1: witness = a, return 0; else i++
Powm ==
  /\ pc = "powm"
  /\ t' = ModPow(a, n - 1, n)
  /\ IF FermatFails(t')
     THEN /\ witness' = a
          /\ is_prime' = 0
          /\ pc' = "emit"
          /\ UNCHANGED <<i, passes>>
     ELSE /\ i' = i + 1
          /\ passes' = passes + 1
          /\ pc' = "loop"
          /\ UNCHANGED <<witness, is_prime>>
  /\ UNCHANGED <<source, carmichael_list, MAX_VAL, CHUNK, k, start, end, x,
                 n, a, found, bit_len, is_really_prime, row, out, sampled>>

\* main.c:124-145, 112  bit_len, is_really_prime, the CSV row, ++x
Emit ==
  /\ pc = "emit"
  /\ bit_len' = BitLen(x)
  /\ found' = IF is_prime # 0 THEN is_carmichael(carmichael_list, x) ELSE found
  /\ is_really_prime' = ReallyPrime(is_prime, carmichael_list, x)
  /\ row' = RowOf(x, bit_len', is_prime, witness, is_really_prime')
  /\ out' = Append(out, x)
  /\ x' = x + 1
  /\ pc' = "inner"
  /\ UNCHANGED <<source, carmichael_list, MAX_VAL, CHUNK, k, start, end, n,
                 i, a, t, witness, is_prime, sampled, passes>>

\* state of main before load_carmichael is called (main.c:86-90, 11-12)
Init ==
  /\ source \in ScanSources
  /\ MAX_VAL \in 1 .. MaxVal
  /\ CHUNK \in 1 .. MaxChunk
  /\ k \in 1 .. MaxK
  /\ carmichael_list = <<>>
  /\ start = 0 /\ end = 0 /\ x = 0
  /\ pc = "load"
  /\ n = 0 /\ i = 0 /\ a = 0 /\ t = 0
  /\ witness = 0
  /\ is_prime = 0
  /\ found = FALSE
  /\ bit_len = 0
  /\ is_really_prime = 0
  /\ row = RowOf(0, 0, 0, 0, 0)
  /\ out = <<>>
  /\ sampled = 0 /\ passes = 0

Next ==
  \/ Load
  \/ ChunkBegin
  \/ ScanDone
  \/ ChunkEnd
  \/ CandBegin
  \/ LoopEnter
  \/ ReturnPrime
  \/ \E r \in UrandommRange(n) : Sample(r)
  \/ Powm
  \/ Emit

Spec == Init /\ [][Next]_vars

\* ------------------------------------------------ the oracle on its own
\* is_carmichael(q) called after the load (main.c:36-44)
IsCarmichaelCall(q) ==
  /\ pc = "outer"
  /\ x' = q
  /\ found' = is_carmichael(carmichael_list, q)
  /\ UNCHANGED <<source, carmichael_list, MAX_VAL, CHUNK, k, start, end, pc,
                 n, i, a, t, witness, is_prime, bit_len, is_really_prime,
                 row, out, sampled, passes>>

\* every ascending file and every max_val, before load_carmichael
InitOracle ==
  /\ source \in AscSeqs(MaxSrcVal, MaxLen)
  /\ MAX_VAL \in 0 .. MaxSrcVal
  /\ CHUNK = 1
  /\ k = 1
  /\ carmichael_list = <<>>
  /\ start = 0 /\ end = 0 /\ x = 0
  /\ pc = "load"
  /\ n = 0 /\ i = 0 /\ a = 0 /\ t = 0
  /\ witness = 0
  /\ is_prime = 0
  /\ found = FALSE
  /\ bit_len = 0
  /\ is_really_prime = 0
  /\ row = RowOf(0, 0, 0, 0, 0)
  /\ out = <<>>
  /\ sampled = 0 /\ passes = 0

NextOracle ==
  \/ Load
  \/ \E q \in 0 .. (MaxSrcVal + 1) : IsCarmichaelCall(q)

SpecOracle == InitOracle /\ [][NextOracle]_vars

\* ------------------------------------- the scan at one large candidate
\* candidates of the single-candidate runs: a prime and the smallest
\* Carmichael number; the files hold 561 first or last
FermatCandidates == {97, 561}
FermatSources == {<<561, 1105, 1729>>, <<91, 561>>}

\* main in the middle of a scan whose upper bound is the candidate c: the
\* list is loaded, the rows 1..c-1 are written, the last one (c-1, even)
\* was reported composite at its first trial with base c-2, and the outer
\* loop is about to open the chunk that starts at c
InitFermat ==
  /\ source \in FermatSources
  /\ MAX_VAL \in FermatCandidates
  /\ CHUNK = MAX_VAL - 1
  /\ k \in 1 .. MaxKFermat
  /\ carmichael_list = load_carmichael(source, MAX_VAL)
  /\ start = MAX_VAL /\ end = MAX_VAL - 1 /\ x = MAX_VAL
  /\ pc = "outer"
  /\ n = MAX_VAL - 1 /\ i = 0 /\ a = MAX_VAL - 2 /\ t = MAX_VAL - 2
  /\ witness = MAX_VAL - 2
  /\ is_prime = 0
  /\ found = FALSE
  /\ bit_len = BitLen(MAX_VAL - 1)
  /\ is_really_prime = 0
  /\ row = RowOf(MAX_VAL - 1, BitLen(MAX_VAL - 1), 0, MAX_VAL - 2, 0)
  /\ out = [j \in 1 .. (MAX_VAL - 1) |-> j]
  /\ sampled = 1 /\ passes = 0

NextFermat ==
  \/ ChunkBegin
  \/ ScanDone
  \/ ChunkEnd
  \/ CandBegin
  \/ LoopEnter
  \/ ReturnPrime
  \/ \E r \in UrandommRange(n) : Sample(r)
  \/ Powm
  \/ Emit

SpecFermat == InitFermat /\ [][NextFermat]_vars

\* --------------------------------------------------- the scan, fair draws
InitLive ==
  /\ source \in ScanSources
  /\ MAX_VAL \in 1 .. MaxValLive
  /\ CHUNK \in 1 .. MaxChunk
  /\ k \in 1 .. MaxKLive
  /\ carmichael_list = <<>>
  /\ start = 0 /\ end = 0 /\ x = 0
  /\ pc = "load"
  /\ n = 0 /\ i = 0 /\ a = 0 /\ t = 0
  /\ witness = 0
  /\ is_prime = 0
  /\ found = FALSE
  /\ bit_len = 0
  /\ is_really_prime = 0
  /\ row = RowOf(0, 0, 0, 0, 0)
  /\ out = <<>>
  /\ sampled = 0 /\ passes = 0

\* the program always takes its next step, and every value of [0, n) that
\* mpz_urandomm can return is eventually returned while the loop keeps drawing
FairSpec ==
  /\ InitLive
  /\ [][Next]_vars
  /\ WF_vars(Load) /\ WF_vars(ChunkBegin) /\ WF_vars(ScanDone)
  /\ WF_vars(ChunkEnd) /\ WF_vars(CandBegin) /\ WF_vars(LoopEnter)
  /\ WF_vars(ReturnPrime) /\ WF_vars(Powm) /\ WF_vars(Emit)
  /\ \A r \in 0 .. MaxValLive : WF_vars(Sample(r))

\* ============================================================== properties
IsPrimeNumber(v) == v > 1 /\ \A d \in 2 .. (v - 1) : v % d # 0
IsComposite(v) == v > 1 /\ ~IsPrimeNumber(v)
InSource(v) == \E j \in 1 .. Len(source) : source[j] = v
InList(v) == \E j \in 1 .. Len(carmichael_list) : carmichael_list[j] = v
MinOf(u, v) == IF u < v THEN u ELSE v
InTest == pc \in {"loop", "sample", "powm", "emit"}

\* C1: for every modulus n >= 4 the base that generate_random_coprime
\* returns satisfies 2 <= a <= n-2 and gcd(a, n) = 1.
C1_SamplerRange ==
  (pc = "powm" /\ n >= 4) => (2 <= a /\ a <= n - 2 /\ GCD(a, n) = 1)

\* C2: one-sided soundness: when fermat_test_gmp returns 0 the candidate is
\* not a prime number, and no row reports a prime as composite.
C2_OneSidedSoundness ==
  /\ (pc = "emit" /\ is_prime = 0) => ~IsPrimeNumber(n)
  /\ (Len(out) > 0 /\ row.is_probably_prime = 0) => ~IsPrimeNumber(row.n)

C2_Witness ==
  /\ pc = "emit" /\ is_prime = 0 /\ n = 8
  /\ row.n = 7 /\ row.is_probably_prime = 1

\* C3: witness validity: when fermat_test_gmp returns 0 for a composite n,
\* the stored witness a satisfies 1 < a < n and a^(n-1) mod n # 1.
C3_WitnessValid ==
  (pc = "emit" /\ is_prime = 0 /\ IsComposite(n)) =>
     (1 < witness /\ witness < n /\ ModPow(witness, n - 1, n) # 1)

C3_Witness ==
  pc = "emit" /\ is_prime = 0 /\ n = 9 /\ witness = 2 /\ passes >= 1

\* C4: candidates n <= 3 get their verdict (2 and 3 probably prime, truly
\* prime, no witness; 1 not prime) without the sampler being invoked:
\* generate_random_coprime is never entered with n < 4.
C4_SmallCandidatesSkipSampler ==
  /\ pc = "sample" => n >= 4
  /\ (Len(out) > 0 /\ row.n \in {2, 3} /\ ~InList(row.n)) =>
        (row.is_probably_prime = 1 /\ row.is_really_prime = 1
         /\ row.witness = <<>>)
  /\ (Len(out) > 0 /\ row.n < 2) => row.is_really_prime = 0

\* C5: in a scan of 1..10 with k = 5 and none of the candidates in the
\* pseudoprime set, every run writes is_really_prime = 1 for exactly the
\* candidates 2, 3, 5, 7.
C5_Scan1to10 ==
  (MAX_VAL = 10 /\ k = 5 /\ Len(carmichael_list) = 0 /\ Len(out) > 0) =>
     (row.is_really_prime = 1 <=> row.n \in {2, 3, 5, 7})

\* C6: a Carmichael number that is in the loaded set passes every trial
\* whatever coprime base is drawn, the test returns probably prime, and
\* its row has is_probably_prime = 1 and is_really_prime = 0.
C6_CarmichaelInSet ==
  /\ (n = 561 /\ InList(561) /\ pc = "powm") => ModPow(a, n - 1, n) = 1
  /\ (n = 561 /\ InList(561) /\ pc = "emit") => (is_prime = 1 /\ witness = 0)
  /\ (row.n = 561 /\ InList(561)) =>
        (row.is_probably_prime = 1 /\ row.is_really_prime = 0
         /\ row.witness = <<>>)

C6_Witness ==
  /\ pc = "done" /\ row.n = 561 /\ found /\ row.is_really_prime = 0
  /\ a = 560 /\ k >= 2

\* C7: the scan writes one row per integer of [1, MAX_VAL], in increasing
\* order without gap or duplicate; the chunks are contiguous, disjoint, of
\* CHUNK candidates except a last one cut at MAX_VAL; so the sequence
\* written does not depend on CHUNK.
C7_ScanOrder ==
  /\ \A j \in 1 .. Len(out) : out[j] = j
  /\ Len(out) <= MAX_VAL
  /\ pc = "done" => Len(out) = MAX_VAL
  /\ pc = "outer" =>
        ((start - 1) % CHUNK = 0 /\ Len(out) = MinOf(start - 1, MAX_VAL))
  /\ (pc = "inner" \/ InTest) =>
        /\ (start - 1) % CHUNK = 0
        /\ end = MinOf(start + CHUNK - 1, MAX_VAL)
        /\ end - start + 1 = CHUNK \/ end = MAX_VAL
        /\ start <= x /\ x <= end + 1
        /\ Len(out) = x - 1
  /\ InTest => (n = x /\ x <= end)
  /\ Len(out) > 0 => row.n = Len(out)

C7_Witness ==
  /\ pc = "done" /\ CHUNK > 1 /\ MAX_VAL > 2 * CHUNK /\ MAX_VAL % CHUNK # 0
  /\ Len(out) = MAX_VAL

\* C8: after load_carmichael(source, max_val) of an ascending source,
\* is_carmichael(n) is true exactly when n occurs in the source and
\* n <= max_val, for every n.
C8_Oracle ==
  pc = "outer" =>
     /\ found = (InSource(x) /\ x <= MAX_VAL)
     /\ \A q \in 0 .. (MaxSrcVal + 1) :
           is_carmichael(carmichael_list, q) = (InSource(q) /\ q <= MAX_VAL)

C8_Witness ==
  /\ pc = "outer" /\ found /\ Len(carmichael_list) >= 2
  /\ Len(source) > Len(carmichael_list)
  /\ x = carmichael_list[Len(carmichael_list)]

\* C9: fermat_test_gmp returns composite at the first trial whose power is
\* not 1, with that trial's base as the witness and no further base
\* sampled; it returns probably prime, witness 0, only after k trials that
\* all gave 1; at most k bases are sampled per call.
C9_ShortCircuit ==
  /\ InTest => (sampled <= k /\ passes = i /\ passes <= sampled)
  /\ pc \in {"sample", "powm"} => sampled = i + 1
  /\ pc = "loop" => sampled = i
  /\ (pc = "emit" /\ is_prime = 0) =>
        /\ witness = a
        /\ t = ModPow(a, n - 1, n) /\ t # 1
        /\ sampled = passes + 1
  /\ (pc = "emit" /\ is_prime = 1) =>
        (witness = 0 /\ sampled = k /\ passes = k)

C9_Witness ==
  pc = "emit" /\ is_prime = 0 /\ passes >= 1 /\ sampled < k

\* C10: under fair draws the rejection loop ends for every candidate
\* n >= 1 (1, 2 and 3 included) because some draw is accepted, and the scan
\* of [1, MAX_VAL] completes.
C10_Termination ==
  /\ [](pc = "sample" =>
          \E r \in UrandommRange(n) : CoprimeAccepted(GCD(AdjustBase(r, n), n)))
  /\ (pc = "sample") ~> (pc = "powm")
  /\ <>(pc = "done")

C10_Witness ==
  /\ pc = "sample" /\ n <= 3 /\ a # 0 /\ GCD(a, n) # 1
====
